---- MODULE Spec2Model ----
(***************************************************************************)
(* Azoth DAO: confidential governance ledger.                              *)
(*                                                                         *)
(* The four contracts (CUSDCMarketplace, ConfidentialVault,                *)
(* ConfidentialGovernanceToken, AzothDAO) are modelled from the Solidity   *)
(* listings in apps/inco-lite-template/INCO_INTEGRATION.md, the session    *)
(* key client from utils/inco.ts and hooks/use-session-key.ts.  The Inco   *)
(* engine is a black box: a handle is a natural number naming a            *)
(* ciphertext, val[h] is its plaintext and acl[h] the set of principals    *)
(* allowed to ask for it.  Handle 0 is the bytes32(0) sentinel.            *)
(* ETH payments (msg.value, fees, mint price) are not modelled.            *)
(***************************************************************************)
EXTENDS Integers, Sequences, FiniteSets, TLC

\* ---------------------------------------------------------------- bounds
MaxBlock     == 5      \* the clock stops here
MaxProposals == 1      \* proposals created in one behaviour
MaxPurchases == 2      \* purchaseCUSDC calls in one behaviour
MaxMints     == 2      \* mint calls in one behaviour
MaxDeposits  == 2      \* deposit calls in one behaviour
MaxWithdraws == 1      \* withdraw calls in one behaviour
VotingPeriod == 2      \* blocks a vote stays open (deployment parameter, scaled)
TimelockPeriod == 1    \* timelock between queue and execute (deployment parameter, scaled)
ValueCap     == 2000000000  \* largest intermediate product the engine is asked for
MaxVouchers  == 2      \* vouchers issued in one behaviour
MaxRevokes   == 2      \* revokeAllVouchers calls per granter in one behaviour
MaxReleases     == 2
SessionDuration == 2   \* lifetime of a session (SESSION_DURATION_MS, scaled to clock ticks)

\* ------------------------------------------------------ program constants
ZERO_HANDLE    == 0
DECIMAL_OFFSET == 1000
VIRTUAL_SHARES == 1000
VIRTUAL_ASSETS == 1
VotingDelay    == 1
QuorumBps       == 2000
ApprovalBps     == 5000

Users      == {"u1", "u2"}
DAO        == "AzothDAO"
VAULT      == "ConfidentialVault"
MARKET     == "CUSDCMarketplace"
GOV        == "ConfidentialGovernanceToken"
Principals == Users \cup {DAO, VAULT, MARKET, GOV}

PurchaseAmounts == {1}
MintAmounts     == {1, 3, 5}
RequestAmounts  == {1}
Recipients      == {"u2"}
VoteType        == {"For", "Against", "Abstain"}
VotingMode      == {"Normal"}
Plaintexts      == 0..1
Keys            == {"k1", "k2"}   \* ephemeral session identities
NoAddress       == "undefined"    \* no wallet is connected
NoError         == "null"
VoteDecimals    == 18             \* formatUnits(decrypted, 18)
Rejected        == "User rejected the request"

ProposalState == {"Pending", "Active", "Canceled", "Defeated", "Succeeded",
                  "Queued", "Executed"}

VARIABLES
    now,            \* block.number / block.timestamp (one clock)
    val,            \* engine: plaintext of every handle issued so far
    acl,            \* engine: principals allowed on every handle
    balances,       \* CUSDCMarketplace._balances
    totalMinted,    \* CUSDCMarketplace.totalMinted
    totalAssets,    \* ConfidentialVault._totalAssets
    totalShares,    \* ConfidentialVault._totalShares
    shares,         \* ConfidentialVault.shares
    isMember,       \* AzothDAO.isMember
    govBalances,    \* ConfidentialGovernanceToken._balances
    govTotalSupply, \* ConfidentialGovernanceToken._totalSupply
    govPowerFlag,   \* ConfidentialGovernanceToken._hasVotingPower
    hasHeldToken,   \* ConfidentialGovernanceToken.hasHeldToken
    proposals,      \* AzothDAO.proposals (proposalCount = Len(proposals))
    receipts,       \* AzothDAO.receipts
    paid,           \* <<proposalId, recipient>> of the treasury transfers made
    sessionNonce,   \* session verifier: each granter's active-vouchers nonce
    vouchers,       \* vouchers signed so far
    revoked,        \* vouchers that existed when their granter revoked all
    released,       \* <<key, handle, plaintext>> handed to session keys
    address,        \* wagmi useAccount: the connected wallet, or NoAddress
    sessionData,    \* useSessionKey: the session in the page's React state
    isSessionValid, \* useSessionKey: the memoised validity of sessionData
    error,          \* useSessionKey: the last createSession error
    isCreatingSession, \* useSessionKey: a createSession call is in progress
    voteResults,    \* Proposals: the decrypted tallies shown per proposal
    proposalsError, \* Proposals: the error the component shows
    localStorage,   \* browser localStorage item azoth_session_<address>
    counts          \* calls made so far, for the bounds

vars == <<now, val, acl, balances, totalMinted, totalAssets, totalShares,
          shares, isMember, govBalances, govTotalSupply, govPowerFlag,
          hasHeldToken, proposals, receipts, paid, sessionNonce, vouchers, revoked,
          released, address, sessionData, isSessionValid, error,
          isCreatingSession, voteResults, proposalsError, localStorage, counts>>

\* The whole state as one record, so that a handler is a function from the
\* state before the call to the state after it.  res is how the call ended:
\* "ok", or the error it reverted with (a revert leaves the state as it was).
State ==
    [now |-> now, val |-> val, acl |-> acl, balances |-> balances,
     totalMinted |-> totalMinted, totalAssets |-> totalAssets,
     totalShares |-> totalShares, shares |-> shares, isMember |-> isMember,
     govBalances |-> govBalances, govTotalSupply |-> govTotalSupply,
     govPowerFlag |-> govPowerFlag, hasHeldToken |-> hasHeldToken,
     proposals |-> proposals, receipts |-> receipts, paid |-> paid,
     address |-> address, sessionData |-> sessionData,
     isSessionValid |-> isSessionValid, error |-> error,
     isCreatingSession |-> isCreatingSession, voteResults |-> voteResults,
     proposalsError |-> proposalsError, localStorage |-> localStorage,
     sessionNonce |-> sessionNonce, vouchers |-> vouchers, revoked |-> revoked,
     released |-> released, counts |-> counts,
     res |-> "ok"]

Becomes(t) ==
    /\ now' = t.now
    /\ val' = t.val
    /\ acl' = t.acl
    /\ balances' = t.balances
    /\ totalMinted' = t.totalMinted
    /\ totalAssets' = t.totalAssets
    /\ totalShares' = t.totalShares
    /\ shares' = t.shares
    /\ isMember' = t.isMember
    /\ govBalances' = t.govBalances
    /\ govTotalSupply' = t.govTotalSupply
    /\ govPowerFlag' = t.govPowerFlag
    /\ hasHeldToken' = t.hasHeldToken
    /\ proposals' = t.proposals
    /\ receipts' = t.receipts
    /\ paid' = t.paid
    /\ address' = t.address
    /\ sessionData' = t.sessionData
    /\ isSessionValid' = t.isSessionValid
    /\ error' = t.error
    /\ isCreatingSession' = t.isCreatingSession
    /\ voteResults' = t.voteResults
    /\ proposalsError' = t.proposalsError
    /\ localStorage' = t.localStorage
    /\ sessionNonce' = t.sessionNonce
    /\ vouchers' = t.vouchers
    /\ revoked' = t.revoked
    /\ released' = t.released
    /\ counts' = t.counts

Starts(t) ==
    /\ now = t.now
    /\ val = t.val
    /\ acl = t.acl
    /\ balances = t.balances
    /\ totalMinted = t.totalMinted
    /\ totalAssets = t.totalAssets
    /\ totalShares = t.totalShares
    /\ shares = t.shares
    /\ isMember = t.isMember
    /\ govBalances = t.govBalances
    /\ govTotalSupply = t.govTotalSupply
    /\ govPowerFlag = t.govPowerFlag
    /\ hasHeldToken = t.hasHeldToken
    /\ proposals = t.proposals
    /\ receipts = t.receipts
    /\ paid = t.paid
    /\ address = t.address
    /\ sessionData = t.sessionData
    /\ isSessionValid = t.isSessionValid
    /\ error = t.error
    /\ isCreatingSession = t.isCreatingSession
    /\ voteResults = t.voteResults
    /\ proposalsError = t.proposalsError
    /\ localStorage = t.localStorage
    /\ sessionNonce = t.sessionNonce
    /\ vouchers = t.vouchers
    /\ revoked = t.revoked
    /\ released = t.released
    /\ counts = t.counts

\* ------------------------------------------------------------ the engine
\* Every operation returns the state after it; the handle it produced is
\* Top of that state.  A fresh handle has an empty access list.
Top(s) == Len(s.val)

Plain(s, h) == IF h = ZERO_HANDLE THEN 0 ELSE s.val[h]

asEuint256(s, v) ==
    [s EXCEPT !.val = Append(@, v), !.acl = Append(@, {})]

eadd(s, a, b) == asEuint256(s, Plain(s, a) + Plain(s, b))

esub(s, a, b) == asEuint256(s, Plain(s, a) - Plain(s, b))

emul(s, a, b) == asEuint256(s, Plain(s, a) * Plain(s, b))

ediv(s, a, b) ==
    asEuint256(s, IF Plain(s, b) = 0 THEN 0 ELSE Plain(s, a) \div Plain(s, b))

allow(s, h, p) ==
    IF h = ZERO_HANDLE THEN s ELSE [s EXCEPT !.acl[h] = @ \cup {p}]

allowed(s, h, p) == h # ZERO_HANDLE /\ p \in s.acl[h]

isAuthorized(h, p) == allowed(State, h, p)

Reverts(s, err) == [s EXCEPT !.res = err]

Returns(s) == [s EXCEPT !.res = "ok"]

Fits(a, b) == b = 0 \/ a <= ValueCap \div b

NoReceipt == [hasVoted |-> FALSE, votes |-> ZERO_HANDLE, support |-> "None"]

\* The state after the four constructors.
Genesis ==
    LET s0 == [now |-> 0, val |-> <<>>, acl |-> <<>>,
               balances |-> [u \in Users |-> ZERO_HANDLE],
               totalMinted |-> ZERO_HANDLE,
               totalAssets |-> ZERO_HANDLE,
               totalShares |-> ZERO_HANDLE,
               shares |-> [u \in Users |-> ZERO_HANDLE],
               isMember |-> [u \in Users |-> FALSE],
               govBalances |-> [u \in Users |-> ZERO_HANDLE],
               govTotalSupply |-> ZERO_HANDLE,
               govPowerFlag |-> [u \in Users |-> ZERO_HANDLE],
               hasHeldToken |-> [u \in Users |-> FALSE],
               proposals |-> <<>>,
               receipts |-> [k \in (1..MaxProposals) \X Users |-> NoReceipt],
               paid |-> {},
               address |-> NoAddress,
               sessionData |-> {},
               isSessionValid |-> FALSE,
               error |-> NoError,
               isCreatingSession |-> FALSE,
               voteResults |-> [p \in 1..MaxProposals |-> {}],
               proposalsError |-> NoError,
               localStorage |-> [u \in Users |-> {}],
               sessionNonce |-> [u \in Users |-> 0],
               vouchers |-> {}, revoked |-> {}, released |-> {},
               counts |-> [c \in {"purchase", "deposit", "withdraw", "mint"} |-> 0],
               res |-> "ok"]
        s1 == asEuint256(s0, VIRTUAL_ASSETS)
        hA == Top(s1)
        s2 == asEuint256(s1, VIRTUAL_SHARES)
        hS == Top(s2)
    IN  allow(allow([s2 EXCEPT !.totalAssets = hA, !.totalShares = hS],
                    hA, VAULT), hS, VAULT)

\* ------------------------------------------------------ CUSDCMarketplace
purchaseCUSDC(s, sender, cUSDCAmount) ==
    IF cUSDCAmount = 0 THEN Reverts(s, "MustSendETH")
    ELSE
    LET s1 == asEuint256(s, cUSDCAmount)
        encryptedAmount == Top(s1)
        s2 == IF s.balances[sender] = ZERO_HANDLE THEN s1
              ELSE eadd(s1, s.balances[sender], encryptedAmount)
        newBalance == Top(s2)
        s3 == eadd(s2, s.totalMinted, encryptedAmount)
        newTotalMinted == Top(s3)
        s4 == [s3 EXCEPT !.balances[sender] = newBalance,
                         !.totalMinted = newTotalMinted,
                         !.counts["purchase"] = @ + 1]
        s5 == allow(allow(allow(s4, newBalance, MARKET), newBalance, sender),
                    newTotalMinted, MARKET)
    IN  Returns(s5)

\* What vaultTransfer moves out of the account: the whole stored balance.
PulledAmount(userBalance, amount) == userBalance

\* Returns the state after the transfer; the handle handed to the vault is
\* PulledAmount(s.balances[from], amount).
vaultTransfer(s, from, amount) ==
    LET userBalance == s.balances[from]
        s1 == esub(s, userBalance, PulledAmount(userBalance, amount))
        newBalance == Top(s1)
        s2 == [s1 EXCEPT !.balances[from] = newBalance]
    IN  allow(allow(s2, newBalance, MARKET), newBalance, from)

\* Credits the withdrawn assets back to the account.
vaultWithdraw(s, to, amount) ==
    LET s1 == eadd(s, s.balances[to], amount)
        newBalance == Top(s1)
        s2 == [s1 EXCEPT !.balances[to] = newBalance]
    IN  allow(allow(s2, newBalance, MARKET), newBalance, to)

\* ----------------------------------------------------- ConfidentialVault
deposit(s, sender) ==
    LET s1 == asEuint256(s, 0)
        dummyHandle == Top(s1)
        actualAssets == PulledAmount(s1.balances[sender], dummyHandle)
        s2 == vaultTransfer(s1, sender, dummyHandle)
        s3 == asEuint256(s2, DECIMAL_OFFSET)
        s4 == emul(s3, actualAssets, Top(s3))
        assetsScaled == Top(s4)
        s5 == emul(s4, assetsScaled, s.totalShares)
        numerator == Top(s5)
        s6 == ediv(s5, numerator, s.totalAssets)
        sharesReceived == Top(s6)
        s7 == eadd(s6, s.totalAssets, actualAssets)
        newTotalAssets == Top(s7)
        s8 == eadd(s7, s.totalShares, sharesReceived)
        newTotalShares == Top(s8)
        s9 == IF s.shares[sender] = ZERO_HANDLE THEN s8
              ELSE eadd(s8, s.shares[sender], sharesReceived)
        newShares == IF s.shares[sender] = ZERO_HANDLE THEN sharesReceived
                     ELSE Top(s9)
        s10 == [s9 EXCEPT !.totalAssets = newTotalAssets,
                          !.totalShares = newTotalShares,
                          !.shares[sender] = newShares,
                          !.counts["deposit"] = @ + 1]
        s11 == allow(allow(allow(allow(s10, newTotalAssets, VAULT),
                     newTotalShares, VAULT), newShares, VAULT), newShares, sender)
    IN  Returns(s11)

\* withdraw that forgets to store the reduced totalShares.
withdrawStaleTotalShares(s, sender) ==
    LET userShares == s.shares[sender]
        s1 == emul(s, userShares, s.totalAssets)
        numerator == Top(s1)
        s2 == asEuint256(s1, DECIMAL_OFFSET)
        s3 == emul(s2, s.totalShares, Top(s2))
        denominator == Top(s3)
        s4 == ediv(s3, numerator, denominator)
        assetsToReturn == Top(s4)
        s5 == esub(s4, s.totalAssets, assetsToReturn)
        newTotalAssets == Top(s5)
        s6 == esub(s5, s.totalShares, userShares)
        newTotalShares == Top(s6)
        s7 == asEuint256(s6, 0)
        s8 == [s7 EXCEPT !.totalAssets = newTotalAssets,
                         !.totalShares = s.totalShares,
                         !.shares[sender] = Top(s7),
                         !.counts["withdraw"] = @ + 1]
        \* shares[msg.sender].allowThis(): the handle is read back from storage
        s9 == allow(s8, s8.shares[sender], VAULT)
        s10 == allow(allow(s9, newTotalAssets, VAULT), newTotalShares, VAULT)
        s11 == vaultWithdraw(s10, sender, assetsToReturn)
    IN  Returns(s11)

withdraw(s, sender) ==
    LET userShares == s.shares[sender]
        s1 == emul(s, userShares, s.totalAssets)
        numerator == Top(s1)
        s2 == asEuint256(s1, DECIMAL_OFFSET)
        s3 == emul(s2, s.totalShares, Top(s2))
        denominator == Top(s3)
        s4 == ediv(s3, numerator, denominator)
        assetsToReturn == Top(s4)
        s5 == esub(s4, s.totalAssets, assetsToReturn)
        newTotalAssets == Top(s5)
        s6 == esub(s5, s.totalShares, userShares)
        newTotalShares == Top(s6)
        s7 == asEuint256(s6, 0)
        s8 == [s7 EXCEPT !.totalAssets = newTotalAssets,
                         !.totalShares = newTotalShares,
                         !.shares[sender] = Top(s7),
                         !.counts["withdraw"] = @ + 1]
        \* shares[msg.sender].allowThis(): the handle is read back from storage
        s9 == allow(s8, s8.shares[sender], VAULT)
        s10 == allow(allow(s9, newTotalAssets, VAULT), newTotalShares, VAULT)
        s11 == vaultWithdraw(s10, sender, assetsToReturn)
    IN  Returns(s11)

hasShares(s, user) == Plain(s, s.shares[user]) > 0

\* ------------------------------------------- ConfidentialGovernanceToken
hasVotingPower(s, account) ==
    IF ~s.hasHeldToken[account] THEN FALSE
    ELSE Plain(s, s.govBalances[account]) > 0

\* transferInternal that moves the amount between the two balances.
transferInternalMoves(s, from, to, amount) ==
    LET s1 == asEuint256(s, amount)
        s2 == esub(s1, s.govBalances[from], Top(s1))
        newFrom == Top(s2)
        s3 == eadd(s2, s.govBalances[to], Top(s1))
        newTo == Top(s3)
    IN  Returns([s3 EXCEPT !.govBalances[from] = newFrom,
                           !.govBalances[to] = newTo])

\* Governance tokens are soulbound: a transfer between principals is
\* refused.
transferInternal(s, from, to, amount) == Reverts(s, "NotTransferable")

mint(s, sender, amount) ==
    IF ~s.isMember[sender] THEN Reverts(s, "NotDAOMember")
    ELSE
    LET s1 == asEuint256(s, amount)
        encryptedAmount == Top(s1)
        s2 == IF s.govBalances[sender] = ZERO_HANDLE THEN s1
              ELSE eadd(s1, s.govBalances[sender], encryptedAmount)
        newBalance == Top(s2)
        s3 == eadd(s2, s.govTotalSupply, encryptedAmount)
        newTotalSupply == Top(s3)
        s4 == asEuint256(s3, 1)
        s5 == [s4 EXCEPT !.govBalances[sender] = newBalance,
                         !.govTotalSupply = newTotalSupply,
                         !.govPowerFlag[sender] = Top(s4),
                         !.hasHeldToken[sender] = TRUE,
                         !.counts["mint"] = @ + 1]
        s6 == allow(allow(allow(s5, newBalance, GOV), newBalance, sender),
                    newBalance, DAO)
        s7 == allow(allow(s6, newTotalSupply, GOV), s6.govPowerFlag[sender], GOV)
    IN  Returns(s7)

\* -------------------------------------------------------------- AzothDAO
\* Joining needs vault shares.
joinDAO(s, sender) ==
    IF s.isMember[sender] THEN Reverts(s, "AlreadyMember")
    ELSE IF ~hasShares(s, sender) THEN Reverts(s, "NoVaultShares")
    ELSE Returns([s EXCEPT !.isMember[sender] = TRUE])

propose(s, sender, amount, recipient, votingMode) ==
    IF ~s.isMember[sender] THEN Reverts(s, "NotMember")
    ELSE IF ~hasVotingPower(s, sender) THEN Reverts(s, "NoVotingPower")
    ELSE
    LET proposalId == Len(s.proposals) + 1
        s1 == asEuint256(s, amount)
        s2 == asEuint256(s1, 0)
        s3 == asEuint256(s2, 0)
        s4 == asEuint256(s3, 0)
        proposal == [proposer |-> sender,
                     requestedAmount |-> Top(s1),
                     recipient |-> recipient,
                     startBlock |-> s.now + VotingDelay,
                     endBlock |-> s.now + VotingDelay + VotingPeriod,
                     queuedTime |-> 0,
                     forVotes |-> Top(s2),
                     againstVotes |-> Top(s3),
                     abstainVotes |-> Top(s4),
                     state |-> "Pending",
                     votingMode |-> votingMode,
                     executed |-> FALSE]
        s5 == [s4 EXCEPT !.proposals = Append(@, proposal)]
        \* the four grants read the handles back from the stored proposal
        q == s5.proposals[proposalId]
        s6 == allow(allow(allow(allow(s5, q.requestedAmount, DAO),
                    q.forVotes, DAO), q.againstVotes, DAO), q.abstainVotes, DAO)
    IN  Returns(s6)

\* castVoteError without the receipt check.
castVoteErrorNoReceipt(s, sender, proposalId) ==
    LET proposal == s.proposals[proposalId] IN
    IF proposal.state # "Active" THEN "ProposalNotActive"
    ELSE IF s.now < proposal.startBlock THEN "VotingNotStarted"
    ELSE IF s.now > proposal.endBlock THEN "VotingEnded"
    ELSE IF ~hasVotingPower(s, sender) THEN "NoVotingPower"
    ELSE "ok"

\* castVoteError with the window opening one block late.
castVoteErrorLateStart(s, sender, proposalId) ==
    LET proposal == s.proposals[proposalId]
        receipt == s.receipts[<<proposalId, sender>>]
    IN
    IF proposal.state # "Active" THEN "ProposalNotActive"
    ELSE IF s.now <= proposal.startBlock THEN "VotingNotStarted"
    ELSE IF s.now > proposal.endBlock THEN "VotingEnded"
    ELSE IF receipt.hasVoted THEN "AlreadyVoted"
    ELSE IF ~hasVotingPower(s, sender) THEN "NoVotingPower"
    ELSE "ok"

\* castVoteError without the end-of-window check.
castVoteErrorNoEnd(s, sender, proposalId) ==
    LET proposal == s.proposals[proposalId]
        receipt == s.receipts[<<proposalId, sender>>]
    IN
    IF proposal.state # "Active" THEN "ProposalNotActive"
    ELSE IF s.now < proposal.startBlock THEN "VotingNotStarted"
    ELSE IF receipt.hasVoted THEN "AlreadyVoted"
    ELSE IF ~hasVotingPower(s, sender) THEN "NoVotingPower"
    ELSE "ok"

\* castVoteError without the voting-power check.
castVoteErrorNoPower(s, sender, proposalId) ==
    LET proposal == s.proposals[proposalId]
        receipt == s.receipts[<<proposalId, sender>>]
    IN
    IF proposal.state # "Active" THEN "ProposalNotActive"
    ELSE IF s.now < proposal.startBlock THEN "VotingNotStarted"
    ELSE IF s.now > proposal.endBlock THEN "VotingEnded"
    ELSE IF receipt.hasVoted THEN "AlreadyVoted"
    ELSE "ok"

\* The reverts of castVote, in the order the code checks them.
castVoteError(s, sender, proposalId) ==
    LET proposal == s.proposals[proposalId]
        receipt == s.receipts[<<proposalId, sender>>]
    IN
    IF proposal.state # "Active" THEN "ProposalNotActive"
    ELSE IF s.now < proposal.startBlock THEN "VotingNotStarted"
    ELSE IF s.now > proposal.endBlock THEN "VotingEnded"
    ELSE IF receipt.hasVoted THEN "AlreadyVoted"
    ELSE IF ~hasVotingPower(s, sender) THEN "NoVotingPower"
    ELSE "ok"

\* addVote that adds every vote to forVotes.
addVoteMisrouted(s, proposalId, support, weight) ==
    LET proposal == s.proposals[proposalId]
        s1 == eadd(s, proposal.forVotes, weight)
        newVotes == Top(s1)
    IN  allow([s1 EXCEPT !.proposals[proposalId].forVotes = newVotes], newVotes, DAO)

\* The tally the vote goes to is replaced by (tally + weight), granted to
\* the DAO only.
addVote(s, proposalId, support, weight) ==
    LET proposal == s.proposals[proposalId]
        s1 == IF support = "For" THEN eadd(s, proposal.forVotes, weight)
              ELSE IF support = "Against" THEN eadd(s, proposal.againstVotes, weight)
              ELSE eadd(s, proposal.abstainVotes, weight)
        newVotes == Top(s1)
        s2 == IF support = "For" THEN [s1 EXCEPT !.proposals[proposalId].forVotes = newVotes]
              ELSE IF support = "Against" THEN [s1 EXCEPT !.proposals[proposalId].againstVotes = newVotes]
              ELSE [s1 EXCEPT !.proposals[proposalId].abstainVotes = newVotes]
    IN  allow(s2, newVotes, DAO)

castVote(s, sender, proposalId, support) ==
    IF castVoteError(s, sender, proposalId) # "ok"
    THEN Reverts(s, castVoteError(s, sender, proposalId))
    ELSE
    LET weight == s.govBalances[sender]
        s1 == [s EXCEPT !.receipts[<<proposalId, sender>>] =
                  [hasVoted |-> TRUE, votes |-> weight, support |-> support]]
    IN  Returns(addVote(s1, proposalId, support, weight))

\* revealVotesError without the end-of-voting check.
revealVotesErrorNoWindow(s, sender, proposalId) ==
    LET proposal == s.proposals[proposalId] IN
    IF ~s.isMember[sender] THEN "NotMember"
    ELSE IF proposal.executed \/ proposal.state = "Canceled"
         THEN "AlreadyExecutedOrCanceled"
    ELSE "ok"

revealVotesError(s, sender, proposalId) ==
    LET proposal == s.proposals[proposalId] IN
    IF ~s.isMember[sender] THEN "NotMember"
    ELSE IF s.now <= proposal.endBlock THEN "VotingNotEnded"
    ELSE IF proposal.executed \/ proposal.state = "Canceled"
         THEN "AlreadyExecutedOrCanceled"
    ELSE "ok"

revealVotes(s, sender, proposalId) ==
    LET proposal == s.proposals[proposalId] IN
    IF revealVotesError(s, sender, proposalId) # "ok"
    THEN Reverts(s, revealVotesError(s, sender, proposalId))
    ELSE Returns(allow(allow(allow(s, proposal.forVotes, sender),
                    proposal.againstVotes, sender), proposal.abstainVotes, sender))

\* finalizeError without the lifecycle-state check.
finalizeErrorNoState(s, sender, proposalId) ==
    LET proposal == s.proposals[proposalId] IN
    IF ~s.isMember[sender] THEN "NotMember"
    ELSE IF s.now <= proposal.endBlock THEN "VotingNotEnded"
    ELSE "ok"

\* finalizeError that lets the last block of the window through.
finalizeErrorOffByOne(s, sender, proposalId) ==
    LET proposal == s.proposals[proposalId] IN
    IF ~s.isMember[sender] THEN "NotMember"
    ELSE IF s.now < proposal.endBlock THEN "VotingNotEnded"
    ELSE IF proposal.state # "Active" /\ proposal.state # "Pending"
         THEN "ProposalNotActive"
    ELSE "ok"

finalizeError(s, sender, proposalId) ==
    LET proposal == s.proposals[proposalId] IN
    IF ~s.isMember[sender] THEN "NotMember"
    ELSE IF s.now <= proposal.endBlock THEN "VotingNotEnded"
    ELSE IF proposal.state # "Active" /\ proposal.state # "Pending"
         THEN "ProposalNotActive"
    ELSE "ok"

\* finalizeProposal in which a tie succeeds.
finalizeProposalTieSucceeds(s, sender, proposalId, forVotes, againstVotes) ==
    IF finalizeError(s, sender, proposalId) # "ok"
    THEN Reverts(s, finalizeError(s, sender, proposalId))
    ELSE IF forVotes >= againstVotes
         THEN Returns([s EXCEPT !.proposals[proposalId].state = "Succeeded"])
    ELSE Returns([s EXCEPT !.proposals[proposalId].state = "Defeated"])

finalizeProposal(s, sender, proposalId, forVotes, againstVotes) ==
    IF finalizeError(s, sender, proposalId) # "ok"
    THEN Reverts(s, finalizeError(s, sender, proposalId))
    ELSE IF forVotes > againstVotes
         THEN Returns([s EXCEPT !.proposals[proposalId].state = "Succeeded"])
    ELSE Returns([s EXCEPT !.proposals[proposalId].state = "Defeated"])

\* queueProposal that queues whatever the state.
queueProposalAnyState(s, sender, proposalId) ==
    IF ~s.isMember[sender] THEN Reverts(s, "NotMember")
    ELSE Returns([s EXCEPT !.proposals[proposalId].state = "Queued",
                        !.proposals[proposalId].queuedTime = s.now])

\* Succeeded -> Queued, starting the timelock.
queueProposal(s, sender, proposalId) ==
    LET proposal == s.proposals[proposalId] IN
    IF ~s.isMember[sender] THEN Reverts(s, "NotMember")
    ELSE IF proposal.state # "Succeeded"
         THEN Reverts(s, "ProposalNotSucceeded")
    ELSE Returns([s EXCEPT !.proposals[proposalId].state = "Queued",
                        !.proposals[proposalId].queuedTime = s.now])

\* executeProposal that does not wait for the timelock.
executeProposalNoTimelock(s, sender, proposalId) ==
    LET proposal == s.proposals[proposalId] IN
    IF ~s.isMember[sender] THEN Reverts(s, "NotMember")
    ELSE IF proposal.state # "Queued"
         THEN Reverts(s, "ProposalNotQueued")
    ELSE Returns([s EXCEPT !.proposals[proposalId].state = "Executed",
                        !.proposals[proposalId].executed = TRUE,
                        !.paid = @ \cup {<<proposalId, proposal.recipient>>}])

\* Queued -> Executed once the timelock has elapsed; the requested amount
\* goes to the recipient.
executeProposal(s, sender, proposalId) ==
    LET proposal == s.proposals[proposalId] IN
    IF ~s.isMember[sender] THEN Reverts(s, "NotMember")
    ELSE IF proposal.state # "Queued"
         THEN Reverts(s, "ProposalNotQueued")
    ELSE IF s.now < proposal.queuedTime + TimelockPeriod
         THEN Reverts(s, "TimelockNotElapsed")
    ELSE Returns([s EXCEPT !.proposals[proposalId].state = "Executed",
                        !.proposals[proposalId].executed = TRUE,
                        !.paid = @ \cup {<<proposalId, proposal.recipient>>}])

\* Any state but Executed and Canceled -> Canceled, by the proposer.
cancelProposal(s, sender, proposalId) ==
    LET proposal == s.proposals[proposalId] IN
    IF sender # proposal.proposer
         THEN Reverts(s, "NotProposer")
    ELSE IF proposal.state \in {"Executed", "Canceled"}
         THEN Reverts(s, "AlreadyExecutedOrCanceled")
    ELSE Returns([s EXCEPT !.proposals[proposalId].state = "Canceled"])

\* Proposals.tsx: when the UI offers Queue and Execute.
canQueue(s, sender, proposalId) ==
    /\ s.proposals[proposalId].state = "Succeeded"
    /\ ~s.proposals[proposalId].executed
    /\ s.isMember[sender]

canExecute(s, sender, proposalId) ==
    /\ s.proposals[proposalId].state = "Queued"
    /\ ~s.proposals[proposalId].executed
    /\ s.isMember[sender]

\* Pending -> Active is automatic once the clock reaches startBlock.
Activate(ps, t) ==
    [i \in DOMAIN ps |->
        IF ps[i].state = "Pending" /\ t >= ps[i].startBlock
        THEN [ps[i] EXCEPT !.state = "Active"] ELSE ps[i]]

\* One block is mined.
mine(s) ==
    Returns([s EXCEPT !.now = @ + 1, !.proposals = Activate(@, s.now + 1)])

\* ------------------------------------------------------- session keys
\* zap.grantSessionKeyAllowanceVoucher: the granter signs a voucher for the
\* grantee; the voucher carries the granter's nonce at the time of signing.
grantSessionKeyAllowanceVoucher(s, granter, granteeAddress, expiresAt) ==
    Returns([s EXCEPT !.vouchers = @ \cup
        {[granter |-> granter, grantee |-> granteeAddress,
          expiresAt |-> expiresAt, nonce |-> s.sessionNonce[granter]]}])

grantSessionKeyVoucher(s, granter, granteeAddress, expiresAt) ==
    grantSessionKeyAllowanceVoucher(s, granter, granteeAddress, expiresAt)

\* @inco/js generateSecp256k1Keypair: the keys a call can return; a new
\* random key, never one that some voucher already names.
generateSecp256k1Keypair(s) == Keys \ {v.grantee : v \in s.vouchers}

\* hooks/use-session-key.ts saveSessionToStorage: the private key, the
\* voucher and the expiry go into the wallet's localStorage item.
saveSessionToStorage(s, session, walletAddress) ==
    [s EXCEPT !.localStorage[walletAddress] =
        {[privateKeyHex |-> session.keypair,
          voucher |-> session.voucher,
          expiresAt |-> session.expiresAt]}]

\* setSessionData: the React state is replaced.  isSessionValid is
\* memoised on sessionData alone, so it is computed when sessionData is set
\* and keeps that value until sessionData is set again.
setSessionData(s, d) ==
    [s EXCEPT !.sessionData = d,
              !.isSessionValid = \E e \in d : s.now < e.expiresAt]

\* createSession that signs for the key already in localStorage, if any.
createSessionStoredKey(s, addr, key, signed) ==
    LET k == IF s.localStorage[addr] = {} THEN key
             ELSE (CHOOSE d \in s.localStorage[addr] : TRUE).privateKeyHex
        expiresAt == s.now + SessionDuration
        voucher == [granter |-> addr, grantee |-> k,
                    expiresAt |-> expiresAt, nonce |-> s.sessionNonce[addr]]
        newSession == [keypair |-> k, voucher |-> voucher,
                       expiresAt |-> expiresAt]
        s0 == [s EXCEPT !.isCreatingSession = TRUE, !.error = NoError]
        s1 == grantSessionKeyAllowanceVoucher(s0, addr, k, expiresAt)
        s2 == setSessionData(s1, {newSession})
        s3 == saveSessionToStorage(s2, newSession, addr)
    IN  IF addr = NoAddress THEN Reverts(s, "null")
        ELSE IF ~signed
        THEN [s0 EXCEPT !.error = Rejected, !.isCreatingSession = FALSE,
                        !.res = "null"]
        ELSE Returns([s3 EXCEPT !.isCreatingSession = FALSE])

\* createSession that stores the session before the wallet has signed.
createSessionSavesFirst(s, addr, key, signed) ==
    LET expiresAt == s.now + SessionDuration
        voucher == [granter |-> addr, grantee |-> key,
                    expiresAt |-> expiresAt, nonce |-> s.sessionNonce[addr]]
        newSession == [keypair |-> key, voucher |-> voucher,
                       expiresAt |-> expiresAt]
        s0 == [s EXCEPT !.isCreatingSession = TRUE, !.error = NoError]
        s1 == saveSessionToStorage(setSessionData(s0, {newSession}),
                                   newSession, addr)
        s2 == grantSessionKeyAllowanceVoucher(s1, addr, key, expiresAt)
    IN  IF addr = NoAddress THEN Reverts(s, "null")
        ELSE IF ~signed
        THEN [s1 EXCEPT !.error = Rejected, !.isCreatingSession = FALSE,
                        !.res = "null"]
        ELSE Returns([s2 EXCEPT !.isCreatingSession = FALSE])

\* hooks/use-session-key.ts createSession, called with the hook's address:
\* nothing happens without a connected wallet; otherwise the wallet is asked
\* to sign a voucher for the newly generated key that expires
\* SessionDuration from now.  If it signs, the session goes into the React
\* state and into localStorage; if it refuses, the error is recorded and
\* null is returned.  Either way the in-progress flag is reset.
createSession(s, addr, key, signed) ==
    LET expiresAt == s.now + SessionDuration
        voucher == [granter |-> addr, grantee |-> key,
                    expiresAt |-> expiresAt, nonce |-> s.sessionNonce[addr]]
        newSession == [keypair |-> key, voucher |-> voucher,
                       expiresAt |-> expiresAt]
        s0 == [s EXCEPT !.isCreatingSession = TRUE, !.error = NoError]
        s1 == grantSessionKeyAllowanceVoucher(s0, addr, key, expiresAt)
        s2 == setSessionData(s1, {newSession})
        s3 == saveSessionToStorage(s2, newSession, addr)
    IN  IF addr = NoAddress THEN Reverts(s, "null")
        ELSE IF ~signed
        THEN [s0 EXCEPT !.error = Rejected, !.isCreatingSession = FALSE,
                        !.res = "null"]
        ELSE Returns([s3 EXCEPT !.isCreatingSession = FALSE])

\* hooks/use-session-key.ts ensureSession: the session in the React state
\* if isSessionValid says so, a newly created one otherwise.
ensureSession(s, key, signed) ==
    IF s.isSessionValid /\ s.sessionData # {} THEN Returns(s)
    ELSE createSession(s, s.address, key, signed)

\* The session ensureSession hands to its caller (none if it returns null).
ensureSessionReturns(s, key, signed) ==
    LET t == ensureSession(s, key, signed) IN
    IF t.res = "ok" THEN t.sessionData ELSE {}

\* hooks/use-session-key.ts loadSessionFromStorage: the stored session if
\* there is one and it has not expired; an expired item is removed.
loadSessionFromStorage(s, walletAddress) ==
    {[keypair |-> d.privateKeyHex, voucher |-> d.voucher,
      expiresAt |-> d.expiresAt] :
        d \in {e \in s.localStorage[walletAddress] : s.now < e.expiresAt}}

\* The effect that runs on mount and whenever the address changes: without
\* an address the session is cleared; with one, the stored session of that
\* address, if there is one, replaces the session in the React state.
addressEffect(s) ==
    IF s.address = NoAddress THEN setSessionData(s, {})
    ELSE LET stored == loadSessionFromStorage(s, s.address)
             s1 == [s EXCEPT !.localStorage[s.address] =
                                {e \in @ : s.now < e.expiresAt}]
         IN  IF stored # {} THEN setSessionData(s1, stored) ELSE s1

\* The user switches the wallet account (or disconnects): the hook's address
\* changes and the effect runs.
accountChange(s, addr) == Returns(addressEffect([s EXCEPT !.address = addr]))

\* A page load: the React state starts empty, the wallet reconnects and the
\* mount effect restores the stored session.
mount(s, addr) ==
    Returns(addressEffect([s EXCEPT !.address = addr,
                                    !.sessionData = {},
                                    !.isSessionValid = FALSE,
                                    !.error = NoError,
                                    !.isCreatingSession = FALSE,
                                    !.voteResults = [p \in DOMAIN @ |-> {}],
                                    !.proposalsError = NoError]))

\* Proposals.tsx Revoke button, shown while isSessionValid: the stored
\* session of the connected address is removed and the page reloads.
revokeClick(s) ==
    IF s.isSessionValid /\ s.address # NoAddress
    THEN mount([s EXCEPT !.localStorage[s.address] = {}], s.address)
    ELSE Returns(s)

\* The checks the covalidator makes on a delegated decrypt, in order:
\* signature and grantee, expiry, nonce, then the granter's ACL on every
\* handle.  Nothing is released unless all pass.
voucherError(s, key, voucher, handles) ==
    IF voucher \notin s.vouchers \/ voucher.grantee # key THEN "VoucherInvalid"
    ELSE IF ~(s.now < voucher.expiresAt) THEN "VoucherExpired"
    ELSE IF s.sessionNonce[voucher.granter] # voucher.nonce THEN "VoucherRevoked"
    ELSE IF \E h \in handles : ~allowed(s, h, voucher.granter) THEN "acl disallowed"
    ELSE "ok"

attestedDecryptWithVoucher(s, key, voucher, handles) ==
    IF voucherError(s, key, voucher, handles) # "ok"
    THEN Reverts(s, voucherError(s, key, voucher, handles))
    ELSE Returns([s EXCEPT !.released = @ \cup
                    {<<key, h, Plain(s, h)>> : h \in handles}])

\* Inco SDK attestedDecrypt: the covalidator decrypts for the wallet that
\* signed the request only the handles that wallet is allowed on.
attestedDecrypt(s, walletClient, handles) ==
    IF \E h \in handles : ~allowed(s, h, walletClient)
    THEN Reverts(s, "acl disallowed")
    ELSE Returns([s EXCEPT !.released = @ \cup
                    {<<walletClient, h, Plain(s, h)>> : h \in handles}])

\* decryptValue that returns the plaintext without asking the covalidator.
decryptValueUnchecked(s, walletClient, handle) ==
    Returns([s EXCEPT !.released = @ \cup
                {<<walletClient, handle, Plain(s, handle)>>}])

\* inco.ts decryptValue: one handle, decrypted for the wallet itself.
decryptValue(s, walletClient, handle) ==
    attestedDecrypt(s, walletClient, {handle})

\* inco.ts decryptWithAttestation: the zero handle is answered locally,
\* any other handle goes to the covalidator.
decryptWithAttestation(s, walletClient, handle) ==
    IF handle = ZERO_HANDLE THEN Returns(s)
    ELSE attestedDecrypt(s, walletClient, {handle})

\* inco.ts decryptMultiple: zero handles are filtered out; what is left,
\* if anything, goes to the covalidator in one request.
decryptMultiple(s, walletClient, handles) ==
    LET validHandles == handles \ {ZERO_HANDLE} IN
    IF validHandles = {} THEN Returns(s)
    ELSE attestedDecrypt(s, walletClient, validHandles)

\* decryptWithVoucher that hands out the plaintexts whatever the
\* covalidator answered.
decryptWithVoucherUnchecked(s, key, voucher, handles) ==
    Returns([s EXCEPT !.released = @ \cup
                {<<key, h, Plain(s, h)>> : h \in handles}])

\* decryptWithVoucher that, when the covalidator refuses, still hands out
\* the handles the granter is allowed on.
decryptWithVoucherPartial(s, key, voucher, handles) ==
    Returns([s EXCEPT !.released = @ \cup
                {<<key, h, Plain(s, h)>> :
                    h \in {x \in handles : allowed(s, x, voucher.granter)}}])

\* decryptWithVoucher that uses the voucher up.
decryptWithVoucherOnce(s, key, voucher, handles) ==
    LET results == attestedDecryptWithVoucher(s, key, voucher, handles)
    IN  IF results.res # "ok" THEN Reverts(s, results.res)
        ELSE [results EXCEPT !.vouchers = @ \ {voucher}]

\* decryptWithVoucher that, when the request fails, keeps the plaintexts of
\* the handles the granter is allowed on.
decryptWithVoucherKeepsPartial(s, key, voucher, handles) ==
    LET results == attestedDecryptWithVoucher(s, key, voucher, handles)
    IN  IF results.res # "ok"
        THEN Reverts([s EXCEPT !.released = @ \cup
                        {<<key, h, Plain(s, h)>> :
                            h \in {x \in handles : allowed(s, x, voucher.granter)}}],
                     results.res)
        ELSE results

\* utils/inco.ts decryptWithVoucher: passes the request on and rethrows.
decryptWithVoucher(s, key, voucher, handles) ==
    LET results == attestedDecryptWithVoucher(s, key, voucher, handles)
    IN  IF results.res # "ok" THEN Reverts(s, results.res) ELSE results

\* zap.updateActiveVouchersSessionNonce: the granter's nonce moves on.
updateActiveVouchersSessionNonce(s, granter) ==
    Returns([s EXCEPT !.sessionNonce[granter] = @ + 1])

\* revokeAllVouchers that sends no transaction.
revokeAllVouchersNoTransaction(s, granter) == Returns(s)

\* utils/inco.ts revokeAllVouchers.
revokeAllVouchers(s, granter) == updateActiveVouchersSessionNonce(s, granter)

\* ------------------------------------------------------ Proposals page
\* bigint.toString(): the decimal digits of a value.
RECURSIVE toDigits(_)
toDigits(n) == IF n < 10 THEN <<n>> ELSE Append(toDigits(n \div 10), n % 10)

\* BigInt(digits): the value of a string of decimal digits.
RECURSIVE fromDigits(_)
fromDigits(d) ==
    IF d = <<>> THEN 0
    ELSE fromDigits(SubSeq(d, 1, Len(d) - 1)) * 10 + d[Len(d)]

RECURSIVE padStart(_, _)
padStart(d, len) == IF Len(d) >= len THEN d ELSE padStart(<<0>> \o d, len)

RECURSIVE padEnd(_, _)
padEnd(d, len) == IF Len(d) >= len THEN d ELSE padEnd(d \o <<0>>, len)

\* replace(/(0+)$/, ''): trailing zeros are dropped.
RECURSIVE trimEnd(_)
trimEnd(d) ==
    IF d # <<>> /\ d[Len(d)] = 0 THEN trimEnd(SubSeq(d, 1, Len(d) - 1)) ELSE d

\* A decimal string "integer.fraction" as its two digit strings; a string
\* without a point has the empty fraction.
Zero == [integer |-> <<0>>, fraction |-> <<>>]

\* viem formatUnits: the digits are padded on the left to `decimals`, the
\* last `decimals` digits are the fraction with its trailing zeros dropped,
\* the digits before them the integer part ("0" if there are none).
formatUnits(value, decimals) ==
    LET display == padStart(toDigits(value), decimals)
        integer == SubSeq(display, 1, Len(display) - decimals)
        fraction == trimEnd(SubSeq(display, Len(display) - decimals + 1,
                                   Len(display)))
    IN  [integer |-> IF integer = <<>> THEN <<0>> ELSE integer,
         fraction |-> fraction]

\* viem parseUnits, for a fraction of at most `decimals` digits: trailing
\* zeros of the fraction are dropped, the fraction is padded on the right
\* to `decimals` digits, and integer and fraction are read as one number.
parseUnits(value, decimals) ==
    fromDigits(value.integer \o padEnd(trimEnd(value.fraction), decimals))

\* AzothDAO.getVotes: the three tally handles of a proposal.
getVotes(s, proposalId) ==
    <<s.proposals[proposalId].forVotes, s.proposals[proposalId].againstVotes,
      s.proposals[proposalId].abstainVotes>>

\* The handles that go into the batch: the non-zero ones, in order.
handlesToDecrypt(handles) == SelectSeq(handles, LAMBDA h : h # ZERO_HANDLE)

\* handleMap that sends every handle to the first result.
handleMapFirst(handles) ==
    [i \in DOMAIN handles |-> IF handles[i] = ZERO_HANDLE THEN -1 ELSE 0]

\* handleMap: for each handle, -1 if it is the zero handle, otherwise the
\* length of handlesToDecrypt at the moment it was pushed (its 0-based
\* index in the batch).
handleMap(handles) ==
    [i \in DOMAIN handles |->
        IF handles[i] = ZERO_HANDLE THEN -1
        ELSE Len(handlesToDecrypt(SubSeq(handles, 1, i - 1)))]

\* What the covalidator returns for a batch: one result per requested
\* handle, in the order of the request.
decryptionResults(s, handles) ==
    [i \in DOMAIN handles |-> Plain(s, handles[i])]

\* The value shown for each handle: "0" for a handle that was not sent,
\* otherwise the result at the handle's index, formatted with `decimals`.
extractValues(s, handles, decimals) ==
    LET results == decryptionResults(s, handlesToDecrypt(handles)) IN
    [i \in DOMAIN handles |->
        IF handleMap(handles)[i] # -1
        THEN formatUnits(results[handleMap(handles)[i] + 1], decimals)
        ELSE Zero]

\* utils/inco.ts decryptMultiple, the map it returns: each result is
\* stored under the valid handle at the same index.
decryptedMap(s, handles) ==
    LET validHandles == handlesToDecrypt(handles)
        results == decryptionResults(s, validHandles)
    IN  [h \in {validHandles[i] : i \in DOMAIN validHandles} |->
            results[CHOOSE i \in DOMAIN validHandles :
                        /\ validHandles[i] = h
                        /\ \A j \in DOMAIN validHandles :
                              validHandles[j] = h => j <= i]]

\* The text Proposals shows for a failed reveal.
revealErrorText(err) ==
    IF err = "VotingNotEnded"
    THEN "Cannot reveal votes: Voting has not ended yet"
    ELSE IF err = "acl disallowed"
    THEN "ACL Error: Please try again in a few seconds"
    ELSE err

\* Proposals handleRevealVotes: without a valid session one is created and
\* nothing else happens.  Otherwise the revealVotes transaction is sent,
\* the tally handles are read, the non-zero ones are decrypted in one batch
\* with the session key and voucher, and the three values are stored under
\* the proposal id.  A failure at any step records the error and stores
\* nothing.
handleRevealVotes(s, proposalId, key, signed) ==
    IF s.address = NoAddress THEN Returns(s)
    ELSE IF ~s.isSessionValid THEN createSession(s, s.address, key, signed)
    ELSE
    LET s0 == [s EXCEPT !.proposalsError = NoError]
        tx == revealVotes(s0, s.address, proposalId)
        votes == getVotes(tx, proposalId)
        batch == handlesToDecrypt(votes)
        session == CHOOSE d \in s.sessionData : TRUE
        dec == attestedDecryptWithVoucher(tx, session.keypair, session.voucher,
                                          {batch[i] : i \in DOMAIN batch})
        shown == extractValues(tx, votes, VoteDecimals)
        stored == {[forVotes |-> shown[1], againstVotes |-> shown[2],
                    abstainVotes |-> shown[3]]}
        none == {[forVotes |-> Zero, againstVotes |-> Zero,
                  abstainVotes |-> Zero]}
    IN  IF tx.res # "ok"
        THEN Reverts([s0 EXCEPT !.proposalsError = revealErrorText(tx.res)],
                     tx.res)
        ELSE IF Len(batch) > 0 /\ s.sessionData # {}
        THEN IF dec.res # "ok"
             THEN Reverts([tx EXCEPT !.proposalsError = revealErrorText(dec.res)],
                          dec.res)
             ELSE Returns([dec EXCEPT !.voteResults[proposalId] = stored])
        ELSE Returns([tx EXCEPT !.voteResults[proposalId] = none])

\* handleFinalizeProposal that finalizes with 0 and 0 when no results are
\* stored.
handleFinalizeProposalDefaults(s, proposalId) ==
    IF s.address = NoAddress THEN Returns(s)
    ELSE
    LET results == IF s.voteResults[proposalId] = {}
                   THEN [forVotes |-> Zero, againstVotes |-> Zero]
                   ELSE CHOOSE r \in s.voteResults[proposalId] : TRUE
        s0 == [s EXCEPT !.proposalsError = NoError]
        tx == finalizeProposal(s0, s.address, proposalId,
                               parseUnits(results.forVotes, VoteDecimals),
                               parseUnits(results.againstVotes, VoteDecimals))
    IN  IF tx.res # "ok"
        THEN Reverts([s0 EXCEPT !.proposalsError = tx.res], tx.res)
        ELSE tx

\* Proposals handleFinalizeProposal: without stored results for the
\* proposal only an error is shown; otherwise the stored for and against
\* values are converted back to base units and sent to finalizeProposal.
handleFinalizeProposal(s, proposalId) ==
    IF s.address = NoAddress THEN Returns(s)
    ELSE IF s.voteResults[proposalId] = {}
    THEN Reverts([s EXCEPT !.proposalsError =
                     "Please reveal votes first before finalizing"],
                 "no results")
    ELSE
    LET results == CHOOSE r \in s.voteResults[proposalId] : TRUE
        s0 == [s EXCEPT !.proposalsError = NoError]
        tx == finalizeProposal(s0, s.address, proposalId,
                               parseUnits(results.forVotes, VoteDecimals),
                               parseUnits(results.againstVotes, VoteDecimals))
    IN  IF tx.res # "ok"
        THEN Reverts([s0 EXCEPT !.proposalsError = tx.res], tx.res)
        ELSE tx

\* ---------------------------------------------------------------- actions
ProposalIds == 1..Len(proposals)

Tick == now < MaxBlock /\ Becomes(mine(State))

Purchase ==
    \E u \in Users, a \in PurchaseAmounts :
        /\ counts["purchase"] < MaxPurchases
        /\ Becomes(purchaseCUSDC(State, u, a))

Deposit ==
    \E u \in Users :
        /\ counts["deposit"] < MaxDeposits
        /\ Fits(Plain(State, balances[u]), DECIMAL_OFFSET)
        /\ Fits(Plain(State, balances[u]) * DECIMAL_OFFSET, Plain(State, totalShares))
        /\ Becomes(deposit(State, u))

Withdraw ==
    \E u \in Users :
        /\ counts["withdraw"] < MaxWithdraws
        /\ Fits(Plain(State, shares[u]), Plain(State, totalAssets))
        /\ Fits(Plain(State, totalShares), DECIMAL_OFFSET)
        /\ Becomes(withdraw(State, u))

JoinDAO == \E u \in Users : Becomes(joinDAO(State, u))

Mint ==
    \E u \in Users, a \in MintAmounts :
        /\ counts["mint"] < MaxMints
        /\ Becomes(mint(State, u, a))

TransferInternal ==
    \E u \in Users, v \in Users, a \in RequestAmounts :
        u # v /\ Becomes(transferInternal(State, u, v, a))

Propose ==
    \E u \in Users, a \in RequestAmounts, r \in Recipients, m \in VotingMode :
        /\ Len(proposals) < MaxProposals
        /\ Becomes(propose(State, u, a, r, m))

CastVote ==
    \E u \in Users, p \in ProposalIds, c \in VoteType :
        Becomes(castVote(State, u, p, c))

RevealVotes ==
    \E u \in Users, p \in ProposalIds : Becomes(revealVotes(State, u, p))

\* What a caller passes as a tally: the decrypted tally, or any number.
TallyArguments(h) == Plaintexts \cup {Plain(State, h)}

FinalizeProposal ==
    \E u \in Users, p \in ProposalIds :
        \E f \in TallyArguments(proposals[p].forVotes),
           a \in TallyArguments(proposals[p].againstVotes) :
            Becomes(finalizeProposal(State, u, p, f, a))

QueueProposal ==
    \E u \in Users, p \in ProposalIds : Becomes(queueProposal(State, u, p))

ExecuteProposal ==
    \E u \in Users, p \in ProposalIds : Becomes(executeProposal(State, u, p))

CancelProposal ==
    \E u \in Users, p \in ProposalIds : Becomes(cancelProposal(State, u, p))

\* Handles a session asks for: the users' vault shares.
AccountHandles == {shares[u] : u \in Users} \ {ZERO_HANDLE}

\* What can be presented as a voucher: a signed one, or a signed one with
\* its expiry rewritten.
Presentable ==
    vouchers \cup {[v EXCEPT !.expiresAt = MaxBlock + 1] : v \in vouchers}

AccountChange ==
    \E a \in Users \cup {NoAddress} :
        a # address /\ Becomes(accountChange(State, a))

CreateSession ==
    \E k \in generateSecp256k1Keypair(State), signed \in BOOLEAN :
        /\ Cardinality(vouchers) < MaxVouchers
        /\ Becomes(createSession(State, address, k, signed))

EnsureSession ==
    \E k \in generateSecp256k1Keypair(State), signed \in BOOLEAN :
        /\ Cardinality(vouchers) < MaxVouchers
        /\ Becomes(ensureSession(State, k, signed))

RevokeClick == Becomes(revokeClick(State))

HandleRevealVotes ==
    \E p \in ProposalIds, k \in Keys, signed \in BOOLEAN :
        /\ isSessionValid \/
              (Cardinality(vouchers) < MaxVouchers
                  /\ k \in generateSecp256k1Keypair(State))
        /\ Becomes(handleRevealVotes(State, p, k, signed))

HandleFinalizeProposal ==
    \E p \in ProposalIds : Becomes(handleFinalizeProposal(State, p))

DecryptWithVoucher ==
    \E k \in Keys, v \in Presentable, hs \in (SUBSET AccountHandles) \ {{}} :
        Becomes(decryptWithVoucher(State, k, v, hs))

RevokeAllVouchers ==
    \E u \in Users :
        /\ sessionNonce[u] < MaxRevokes
        /\ Becomes([revokeAllVouchers(State, u) EXCEPT
                        !.revoked = @ \cup {v \in vouchers : v.granter = u}])

\* ---------------------------------------------------------- specifications
\* The token contracts and the vault, from construction.
LedgerInit == Starts(Genesis)

LedgerNext == Purchase \/ Deposit \/ Withdraw \/ JoinDAO \/ Mint

SpecLedger == LedgerInit /\ [][LedgerNext]_vars

\* Both users have bought cUSDC, deposited it and joined the DAO.
Onboard(s, u) == joinDAO(deposit(purchaseCUSDC(s, u, 1), u), u)

Onboarded == Onboard(Onboard(Genesis, "u1"), "u2")

\* Governance, from the state in which both users are members.
Init == Starts(Onboarded)

Next ==
    \/ Tick
    \/ Mint
    \/ TransferInternal
    \/ Propose
    \/ CastVote
    \/ RevealVotes
    \/ FinalizeProposal
    \/ QueueProposal
    \/ ExecuteProposal
    \/ CancelProposal

Spec == Init /\ [][Next]_vars

ReloadPage == Becomes(mount(State, address))

\* The session hook in the browser: sessions are created, pages reload,
\* time passes.
BrowserNext ==
    \/ Tick
    \/ AccountChange
    \/ CreateSession
    \/ EnsureSession
    \/ ReloadPage
    \/ RevokeClick

SpecBrowser == Init /\ [][BrowserNext]_vars

\* Session keys, from the state in which both users hold balances.
\* The handles a wallet reads from the contracts and asks to decrypt.
DecryptHandles ==
    ({balances[u] : u \in Users} \cup {shares[u] : u \in Users}
        \cup {govBalances[u] : u \in Users}) \ {ZERO_HANDLE}

DecryptValue ==
    \E u \in Users, h \in DecryptHandles \cup {ZERO_HANDLE} :
        /\ Cardinality(released) < MaxReleases
        /\ Becomes(decryptValue(State, u, h))

DecryptWithAttestation ==
    \E u \in Users, h \in DecryptHandles \cup {ZERO_HANDLE} :
        /\ Cardinality(released) < MaxReleases
        /\ Becomes(decryptWithAttestation(State, u, h))

DecryptMultiple ==
    \E u \in Users, hs \in SUBSET (DecryptHandles \cup {ZERO_HANDLE}) :
        /\ Cardinality(released) < MaxReleases
        /\ Becomes(decryptMultiple(State, u, hs))

DecryptNext ==
    Mint \/ DecryptValue \/ DecryptWithAttestation \/ DecryptMultiple

SpecDecrypt == Init /\ [][DecryptNext]_vars

SessionNext ==
    \/ Tick
    \/ AccountChange
    \/ CreateSession
    \/ DecryptWithVoucher
    \/ RevokeAllVouchers

SpecSession == Init /\ [][SessionNext]_vars

\* The Proposals page of u1 during a vote: both members hold governance
\* tokens, one proposal is open and u1 has connected the wallet.
Voting ==
    accountChange(
        propose(mint(mint(Onboarded, "u1", 5), "u2", 3), "u1", 1, "u2", "Normal"),
        "u1")

ClientInit == Starts(Voting)

ClientNext ==
    \/ Tick
    \/ CastVote
    \/ HandleRevealVotes
    \/ HandleFinalizeProposal

SpecClient == ClientInit /\ [][ClientNext]_vars

\* ------------------------------------------------------------ properties
\* A call that reverted left the state as it was.
Untouched(t) == [t EXCEPT !.res = "ok"] = State

Tallies(p) ==
    {proposals[p].forVotes, proposals[p].againstVotes, proposals[p].abstainVotes}

TallyOf(p, c) ==
    IF c = "For" THEN proposals[p].forVotes
    ELSE IF c = "Against" THEN proposals[p].againstVotes
    ELSE proposals[p].abstainVotes

HasVoted(p, u) == receipts[<<p, u>>].hasVoted

Voters(p, c) == {u \in Users : HasVoted(p, u) /\ receipts[<<p, u>>].support = c}

RECURSIVE WeightSum(_, _)
WeightSum(p, S) ==
    IF S = {} THEN 0
    ELSE LET u == CHOOSE x \in S : TRUE
         IN  Plain(State, receipts[<<p, u>>].votes) + WeightSum(p, S \ {u})

\* C1 (as the spec states it): once a voter has a receipt for a proposal,
\* every later castVote by that voter on that proposal fails with
\* AlreadyVoted.
C1_SecondVoteAlwaysAlreadyVoted ==
    \A p \in ProposalIds, u \in Users, c \in VoteType :
        HasVoted(p, u) => castVote(State, u, p, c).res = "AlreadyVoted"

\* C1 (amended): once a voter has a receipt for a proposal, every later
\* castVote by that voter on that proposal fails and leaves the tallies, the
\* receipt and everything else unchanged; it fails with AlreadyVoted while
\* the proposal is Active and its window is open, and with the earlier
\* checks' ProposalNotActive or VotingEnded otherwise.
C1_SecondVoteRejected ==
    \A p \in ProposalIds, u \in Users, c \in VoteType :
        HasVoted(p, u) =>
            LET t == castVote(State, u, p, c) IN
            /\ Untouched(t)
            /\ t.res = IF proposals[p].state # "Active" THEN "ProposalNotActive"
                       ELSE IF now > proposals[p].endBlock THEN "VotingEnded"
                       ELSE "AlreadyVoted"

C1_Witness ==
    \E p \in ProposalIds, u \in Users :
        HasVoted(p, u) /\ castVote(State, u, p, "For").res = "AlreadyVoted"

\* C2: at most one finalize succeeds per proposal: once a proposal has left
\* Pending/Active it never comes back, and from then on every finalize
\* call, whatever plaintexts it supplies, is rejected and leaves the state
\* unchanged; after the window a member's call is rejected with the
\* contract's state error (ProposalNotActive, the spec's AlreadyFinalized).
C2_FinalizeOnce ==
    /\ [](\A p \in ProposalIds, u \in Users, f \in Plaintexts, a \in Plaintexts :
            proposals[p].state \notin {"Pending", "Active"} =>
                LET t == finalizeProposal(State, u, p, f, a) IN
                /\ t.res # "ok"
                /\ (isMember[u] /\ now > proposals[p].endBlock)
                       => t.res = "ProposalNotActive"
                /\ Untouched(t))
    /\ [][\A p \in ProposalIds :
            proposals[p].state \notin {"Pending", "Active"} =>
                proposals'[p].state \notin {"Pending", "Active"}]_vars

C2_Witness ==
    \E p \in ProposalIds :
        /\ proposals[p].state \in {"Succeeded", "Defeated"}
        /\ finalizeProposal(State, "u1", p, 1, 0).res = "ProposalNotActive"
        /\ finalizeProposal(State, "u2", p, 0, 1).res = "ProposalNotActive"

\* C3: while a proposal's voting window is open (up to and including
\* endBlock) nobody but the DAO contract is allowed on any of its current
\* tally handles, and no revealVotes call succeeds; a member is granted the
\* tallies only after the window has closed.
C3_TalliesSealedWhileOpen ==
    \A p \in ProposalIds :
        now <= proposals[p].endBlock =>
            /\ \A h \in Tallies(p) : acl[h] \subseteq {DAO}
            /\ \A u \in Users : revealVotes(State, u, p).res # "ok"

C3_Witness ==
    \E p \in ProposalIds, u \in Users :
        /\ now <= proposals[p].endBlock
        /\ HasVoted(p, u)
        /\ acl[TallyOf(p, receipts[<<p, u>>].support)] = {DAO}

\* C4: after every operation, the handle stored in an account is authorized
\* for the account's owner (the grants were issued against the handle the
\* operation wrote).
C4_StoredHandleAuthorizedForOwner ==
    \A u \in Users :
        /\ balances[u] # ZERO_HANDLE => isAuthorized(balances[u], u)
        /\ shares[u] # ZERO_HANDLE => isAuthorized(shares[u], u)
        /\ govBalances[u] # ZERO_HANDLE => isAuthorized(govBalances[u], u)

HandleRequests == (SUBSET AccountHandles) \ {{}}

\* C5: a delegated decrypt with a voucher whose expiresAt has been reached
\* never succeeds and releases nothing; for a signed voucher presented by
\* its grantee it fails with VoucherExpired, whether or not the nonce and
\* the granter's ACL would have passed.
C5_ExpiredVoucherRejected ==
    \A k \in Keys, v \in Presentable, hs \in HandleRequests :
        now >= v.expiresAt =>
            LET t == decryptWithVoucher(State, k, v, hs) IN
            /\ t.res # "ok"
            /\ Untouched(t)
            /\ (v \in vouchers /\ v.grantee = k) => t.res = "VoucherExpired"

C5_Witness ==
    \E v \in vouchers, hs \in HandleRequests :
        /\ now >= v.expiresAt
        /\ sessionNonce[v.granter] = v.nonce
        /\ \A h \in hs : isAuthorized(h, v.granter)
        /\ \E h \in hs : <<v.grantee, h, Plain(State, h)>> \in released
        /\ decryptWithVoucher(State, v.grantee, v, hs).res = "VoucherExpired"

LifecycleSteps ==
    {<<"Pending", "Active">>, <<"Active", "Succeeded">>, <<"Active", "Defeated">>,
     <<"Succeeded", "Queued">>, <<"Queued", "Executed">>}
    \cup {<<x, "Canceled">> : x \in ProposalState \ {"Executed", "Canceled"}}

C10_FinalizeOnlyAfterEnd ==
    \A p \in ProposalIds :
        /\ now <= proposals[p].endBlock =>
              \A u \in Users, f \in Plaintexts, a \in Plaintexts :
                  LET t == finalizeProposal(State, u, p, f, a) IN
                  t.res # "ok" /\ Untouched(t)
        /\ proposals[p].state \in {"Succeeded", "Defeated"} =>
              /\ now > proposals[p].endBlock
              /\ \A u \in Users, c \in VoteType : castVote(State, u, p, c).res # "ok"

C10_Witness ==
    \E p \in ProposalIds :
        /\ now = proposals[p].endBlock
        /\ proposals[p].state = "Active"
        /\ finalizeProposal(State, "u1", p, 1, 0).res = "VotingNotEnded"

\* C11: the outcome finalize records agrees with the real encrypted
\* tallies: a proposal is Succeeded only if the plaintext of its forVotes
\* handle exceeds that of its againstVotes handle, and Defeated only if it
\* does not (unattested plaintexts are rejected).
C11_OutcomeAgreesWithTallies ==
    \A p \in ProposalIds :
        /\ proposals[p].state = "Succeeded" =>
              Plain(State, proposals[p].forVotes) > Plain(State, proposals[p].againstVotes)
        /\ proposals[p].state = "Defeated" =>
              Plain(State, proposals[p].forVotes) <= Plain(State, proposals[p].againstVotes)

\* C12: outside the voting window (before startBlock or after endBlock)
\* every castVote is rejected with one of the contract's not-active errors
\* (ProposalNotActive, VotingNotStarted, VotingEnded: the spec's NotActive),
\* whoever calls and whatever the choice, and it writes no receipt and
\* changes no tally.
C12_OutsideWindowRejected ==
    \A p \in ProposalIds, u \in Users, c \in VoteType :
        (now < proposals[p].startBlock \/ now > proposals[p].endBlock) =>
            LET t == castVote(State, u, p, c) IN
            /\ t.res \in {"ProposalNotActive", "VotingNotStarted", "VotingEnded"}
            /\ Untouched(t)

C12_Witness ==
    \E p \in ProposalIds, u \in Users :
        /\ now > proposals[p].endBlock
        /\ proposals[p].state = "Active"
        /\ ~HasVoted(p, u) /\ hasVotingPower(State, u)
        /\ castVote(State, u, p, "For").res = "VotingEnded"

\* C13: a delegated decrypt succeeds only if the voucher's granter is
\* authorized on every handle asked for; what is released goes to the
\* session key, which holds no grant of its own, and no plaintext is ever
\* released for a handle the granter is not authorized on.
C13_DecryptUnderGranterCapability ==
    /\ [](\A k \in Keys, v \in Presentable, hs \in HandleRequests :
            decryptWithVoucher(State, k, v, hs).res = "ok" =>
                \A h \in hs : isAuthorized(h, v.granter) /\ ~isAuthorized(h, k))
    /\ [][\A r \in released' \ released :
            \E v \in vouchers :
                v.grantee = r[1] /\ isAuthorized(r[2], v.granter)]_vars

C13_Witness ==
    \E v \in vouchers, h \in AccountHandles, g \in AccountHandles :
        /\ <<v.grantee, h, Plain(State, h)>> \in released
        /\ ~isAuthorized(h, v.grantee)
        /\ ~isAuthorized(g, v.granter)
        /\ decryptWithVoucher(State, v.grantee, v, {h}).res = "ok"
        /\ decryptWithVoucher(State, v.grantee, v, {g}).res = "acl disallowed"

\* C14 (as the spec states it): a delegated decrypt that fails, fails with
\* VoucherInvalid, VoucherExpired or VoucherRevoked.
C14_FailureIsAVoucherError ==
    \A k \in Keys, v \in Presentable, hs \in HandleRequests :
        LET t == decryptWithVoucher(State, k, v, hs) IN
        t.res # "ok" => t.res \in {"VoucherInvalid", "VoucherExpired", "VoucherRevoked"}

\* C14 (amended): a delegated decrypt over several handles is all or
\* nothing: if the signature, the expiry, the nonce or the granter's
\* authorization on even one handle fails, the call fails (VoucherInvalid,
\* VoucherExpired, VoucherRevoked, or the engine's ACL error) and releases
\* no plaintext for any handle; if it succeeds it releases every handle.
C14_AllOrNothing ==
    \A k \in Keys, v \in Presentable, hs \in HandleRequests :
        LET t == decryptWithVoucher(State, k, v, hs) IN
        /\ ( \/ v \notin vouchers \/ v.grantee # k
             \/ now >= v.expiresAt
             \/ sessionNonce[v.granter] # v.nonce
             \/ \E h \in hs : ~isAuthorized(h, v.granter) )
           => /\ t.res \in {"VoucherInvalid", "VoucherExpired", "VoucherRevoked",
                            "acl disallowed"}
              /\ t.released = released
              /\ Untouched(t)
        /\ t.res = "ok" =>
              \A h \in hs : <<k, h, Plain(State, h)>> \in t.released

C14_Witness ==
    \E v \in vouchers, hs \in HandleRequests :
        /\ now < v.expiresAt /\ sessionNonce[v.granter] = v.nonce
        /\ \E h \in hs : isAuthorized(h, v.granter)
        /\ \E h \in hs : ~isAuthorized(h, v.granter)
        /\ released # {}
        /\ decryptWithVoucher(State, v.grantee, v, hs).res = "acl disallowed"

\* C15: one signing act gives a voucher that expires a session duration
\* ahead; until then every delegated decrypt of handles the granter is
\* authorized on succeeds, any number of times, without a further act of
\* the granter (a decrypt leaves the vouchers and nonces as they are), as
\* long as the granter has not revoked; from expiresAt on it fails with
\* VoucherExpired.
C15_OneSignatureManyDecrypts ==
    /\ [](\A v \in vouchers, hs \in HandleRequests :
            (sessionNonce[v.granter] = v.nonce
                /\ \A h \in hs : isAuthorized(h, v.granter)) =>
               LET t == decryptWithVoucher(State, v.grantee, v, hs) IN
               IF now < v.expiresAt
               THEN /\ t.res = "ok"
                    /\ t.vouchers = vouchers /\ t.sessionNonce = sessionNonce
               ELSE t.res = "VoucherExpired")
    /\ [][/\ \A v \in vouchers' \ vouchers : v.expiresAt = now + SessionDuration
          /\ released' # released =>
                vouchers' = vouchers /\ sessionNonce' = sessionNonce]_vars

C15_Witness ==
    \E v \in vouchers, h \in AccountHandles :
        /\ Cardinality(vouchers) = 1
        /\ now = v.expiresAt - 1
        /\ <<v.grantee, h, Plain(State, h)>> \in released
        /\ decryptWithVoucher(State, v.grantee, v, {h}).res = "ok"
        /\ decryptWithVoucher(mine(State), v.grantee, v, {h}).res = "VoucherExpired"

\* C16: a proposal enters Queued only from Succeeded, by a queue call that
\* records the start of the timelock; queueProposal on a proposal in any
\* other state fails and changes nothing, and the UI offers Queue exactly
\* where the call succeeds.
C16_QueuedOnlyFromSucceeded ==
    /\ [](\A p \in ProposalIds, u \in Users :
            LET t == queueProposal(State, u, p) IN
            /\ proposals[p].state # "Succeeded" => (t.res # "ok" /\ Untouched(t))
            /\ canQueue(State, u, p) <=> t.res = "ok")
    /\ [][\A p \in ProposalIds :
            (proposals[p].state # "Queued" /\ proposals'[p].state = "Queued") =>
                /\ proposals[p].state = "Succeeded"
                /\ proposals'[p].queuedTime = now]_vars

C16_Witness ==
    \E p \in ProposalIds :
        /\ proposals[p].state = "Queued"
        /\ proposals[p].queuedTime = now
        /\ queueProposal(State, "u1", p).res = "ProposalNotSucceeded"

\* C17: a proposal becomes Executed only from Queued and only once the
\* timelock has fully elapsed since it was queued, and that step pays the
\* recipient; an execute call before that fails and pays nothing, so only
\* executed proposals have been paid.
C17_ExecutedOnlyAfterTimelock ==
    /\ [](\A p \in ProposalIds, u \in Users :
            LET t == executeProposal(State, u, p) IN
            /\ (proposals[p].state # "Queued"
                  \/ now < proposals[p].queuedTime + TimelockPeriod)
                 => (t.res # "ok" /\ t.paid = paid /\ Untouched(t))
            /\ t.res = "ok" => canExecute(State, u, p))
    /\ [](\A r \in paid : proposals[r[1]].state = "Executed"
                           /\ r[2] = proposals[r[1]].recipient)
    /\ [][\A p \in ProposalIds :
            (proposals[p].state # "Executed" /\ proposals'[p].state = "Executed") =>
                /\ proposals[p].state = "Queued"
                /\ now >= proposals[p].queuedTime + TimelockPeriod
                /\ paid' = paid \cup {<<p, proposals[p].recipient>>}]_vars

C17_Witness ==
    \E p \in ProposalIds :
        /\ proposals[p].state = "Queued"
        /\ now < proposals[p].queuedTime + TimelockPeriod
        /\ executeProposal(State, "u1", p).res = "TimelockNotElapsed"
        /\ paid = {}

\* C18: finalize makes a proposal Succeeded only if the votes counted reach
\* the quorum (QuorumBps of the governance-token supply) and the For share
\* reaches the approval threshold (ApprovalBps of the votes counted);
\* otherwise the proposal becomes Defeated.
C18_SucceededNeedsQuorumAndApproval ==
    \A p \in ProposalIds, u \in Users, f \in Plaintexts, a \in Plaintexts :
        LET t == finalizeProposal(State, u, p, f, a)
            supply == Plain(State, govTotalSupply)
        IN  t.res = "ok" =>
              (t.proposals[p].state = "Succeeded" =>
                 /\ (f + a) * 10000 >= QuorumBps * supply
                 /\ f * 10000 >= ApprovalBps * (f + a))

\* C19: a direct decrypt of a handle by a requester who is not authorized
\* on it fails with the engine's ACL error and releases nothing; every
\* plaintext released to a wallet is the plaintext of a handle that wallet
\* is authorized on.
C19_DecryptOnlyForAuthorized ==
    /\ \A u \in Users, h \in DecryptHandles :
          LET t == decryptValue(State, u, h) IN
          ~isAuthorized(h, u) =>
              (t.res = "acl disallowed" /\ t.released = released /\ Untouched(t))
    /\ \A r \in released :
          r[1] \in Users => (isAuthorized(r[2], r[1]) /\ r[3] = Plain(State, r[2]))

C19_Witness ==
    \E h \in DecryptHandles :
        /\ \E r \in released : r[1] = "u2" /\ r[2] = h
        /\ ~isAuthorized(h, "u1")
        /\ decryptValue(State, "u1", h).res = "acl disallowed"

\* C20 (as stated): castVote by a voter without voting power fails with
\* NoVotingPower.
C20_PowerlessAlwaysNoVotingPower ==
    \A p \in ProposalIds, u \in Users, c \in VoteType :
        ~hasVotingPower(State, u) =>
            castVote(State, u, p, c).res = "NoVotingPower"

\* C20 (amended): castVote by a voter whose governance-token balance is
\* zero or was never initialized always fails and leaves the tallies, the
\* receipts and everything else unchanged; it fails with NoVotingPower
\* while the proposal is Active and its window is open, and with the
\* earlier checks' ProposalNotActive, VotingNotStarted or VotingEnded
\* otherwise. Every voter with a receipt holds governance tokens.
C20_PowerlessVoteRejected ==
    /\ \A p \in ProposalIds, u \in Users, c \in VoteType :
          ~hasVotingPower(State, u) =>
              LET t == castVote(State, u, p, c) IN
              /\ Untouched(t)
              /\ t.proposals[p] = proposals[p]
              /\ t.receipts = receipts
              /\ t.res = IF proposals[p].state # "Active" THEN "ProposalNotActive"
                         ELSE IF now < proposals[p].startBlock THEN "VotingNotStarted"
                         ELSE IF now > proposals[p].endBlock THEN "VotingEnded"
                         ELSE "NoVotingPower"
    /\ \A p \in ProposalIds, u \in Users :
          HasVoted(p, u) => hasVotingPower(State, u)

C20_Witness ==
    \E p \in ProposalIds, u \in Users :
        /\ ~hasHeldToken[u]
        /\ proposals[p].state = "Active"
        /\ \E v \in Users : HasVoted(p, v)
        /\ castVote(State, u, p, "For").res = "NoVotingPower"

\* C21: only vault members take part in governance: a principal who holds
\* no vault shares, whether it never deposited or has withdrawn everything,
\* is not a DAO member and cannot propose.
C21_NoSharesNoGovernance ==
    \A u \in Users :
        ~hasShares(State, u) =>
            /\ ~isMember[u]
            /\ \A a \in RequestAmounts, r \in Recipients, m \in VotingMode :
                  propose(State, u, a, r, m).res # "ok"

\* The deposits whose products stay within the checked value range.
DepositFits(u) ==
    /\ Fits(Plain(State, balances[u]), DECIMAL_OFFSET)
    /\ Fits(Plain(State, balances[u]) * DECIMAL_OFFSET, Plain(State, totalShares))

\* Shares credited to u by a deposit that leads from State to t.
SharesIssued(t, u) == Plain(t, t.shares[u]) - Plain(State, shares[u])

\* C23: a deposit of A issues A * (totalShares + VIRTUAL_SHARES) /
\* (totalAssets + VIRTUAL_ASSETS) shares, computed on the totals before the
\* deposit, and a non-zero number of them for non-zero A. The stored totals
\* are accepted either as already holding the virtual amounts or as not
\* holding them.
C23_SharesIssuedByVirtualFormula ==
    \A u \in Users :
        (DepositFits(u) /\ Plain(State, balances[u]) > 0) =>
            LET A == Plain(State, balances[u])
                S == Plain(State, totalShares)
                T == Plain(State, totalAssets)
            IN  /\ SharesIssued(deposit(State, u), u) > 0
                /\ SharesIssued(deposit(State, u), u) \in
                      {(A * S) \div T,
                       (A * (S + VIRTUAL_SHARES)) \div (T + VIRTUAL_ASSETS)}

\* The withdrawals whose products stay within the checked value range.
WithdrawFits(u) ==
    /\ Fits(Plain(State, shares[u]), Plain(State, totalAssets))
    /\ Fits(Plain(State, totalShares), DECIMAL_OFFSET)

RECURSIVE SumPlain(_, _)
SumPlain(f, S) ==
    IF S = {} THEN 0
    ELSE LET u == CHOOSE x \in S : TRUE
         IN  Plain(State, f[u]) + SumPlain(f, S \ {u})

C26_KeyInMemoryOnly ==
    \A u \in Users : {d.privateKeyHex : d \in localStorage[u]} = {}

\* C27: every transfer of governance tokens between principals fails with
\* NotTransferable and changes nothing; a principal's governance balance
\* only ever changes by growing, together with the total supply and with
\* every other principal's balance left as it was (the principal's own
\* mint).
C27_GovernanceBalanceNeverTransferred ==
    /\ [](\A u \in Users, v \in Users, a \in MintAmounts :
            LET t == transferInternal(State, u, v, a) IN
            t.res = "NotTransferable" /\ Untouched(t))
    /\ [][\A u \in Users :
            govBalances'[u] # govBalances[u] =>
                /\ \A w \in Users \ {u} : govBalances'[w] = govBalances[w]
                /\ (Plain(State, govBalances[u]))' > Plain(State, govBalances[u])
                /\ (Plain(State, govTotalSupply))' - Plain(State, govTotalSupply)
                      = (Plain(State, govBalances[u]))' - Plain(State, govBalances[u])]_vars

C27_Witness ==
    /\ Plain(State, govBalances["u1"]) = 1
    /\ Plain(State, govBalances["u2"]) = 5
    /\ transferInternal(State, "u2", "u1", 1).res = "NotTransferable"

\* The proposals on which one voter of weight 5 voted For, another voter of
\* weight 3 voted Against, and nobody else voted.
WeightedVote(p, u, c, w) ==
    /\ HasVoted(p, u)
    /\ receipts[<<p, u>>].support = c
    /\ Plain(State, receipts[<<p, u>>].votes) = w

FiveForThreeAgainst(p) ==
    \E u \in Users, v \in Users :
        /\ u # v
        /\ WeightedVote(p, u, "For", 5)
        /\ WeightedVote(p, v, "Against", 3)
        /\ \A w \in Users \ {u, v} : ~HasVoted(p, w)

C30_ZeroHandleShortCircuits ==
    \A u \in Users :
        /\ decryptValue(State, u, ZERO_HANDLE) = Returns(State)
        /\ decryptWithAttestation(State, u, ZERO_HANDLE) = Returns(State)
        /\ \A hs \in SUBSET DecryptHandles :
              decryptMultiple(State, u, hs \cup {ZERO_HANDLE})
                  = decryptMultiple(State, u, hs)

TallyIn(q, c) ==
    IF c = "For" THEN q.forVotes
    ELSE IF c = "Against" THEN q.againstVotes
    ELSE q.abstainVotes

C32_SessionOfConnectedWallet ==
    /\ \A d \in sessionData : d.voucher.granter = address
    /\ \A k \in Keys, signed \in BOOLEAN :
          \A d \in ensureSessionReturns(State, k, signed) :
              d.voucher.granter = address

\* C33: isSessionValid is true exactly while a session is held and the
\* clock is before its expiresAt, and ensureSession never hands out a
\* session whose expiresAt has passed.
C33_ValidExactlyUntilExpiry ==
    /\ isSessionValid <=> \E d \in sessionData : now < d.expiresAt
    /\ \A k \in Keys, signed \in BOOLEAN :
          \A d \in ensureSessionReturns(State, k, signed) : now < d.expiresAt

\* C34: once the user has clicked Revoke on an active session, no delegated
\* decrypt presented with that session's key and voucher succeeds.
C34_RevokeButtonRevokesVoucher ==
    LET t == revokeClick(State) IN
    (isSessionValid /\ address # NoAddress) =>
        \A d \in sessionData, hs \in HandleRequests :
            attestedDecryptWithVoucher(t, d.keypair, d.voucher, hs).res # "ok"

\* C36: a createSession whose voucher request is refused returns null,
\* records the error, resets the in-progress flag and leaves the session in
\* the React state, the stored sessions and the signed vouchers as they
\* were; a createSession whose voucher is signed puts that voucher with its
\* key into the React state and into the item of the connected address.
\* Every session held or stored carries a signed voucher issued to the key
\* it is kept with, and the stored one was granted by the item's address.
C36_FailedCreateSessionKeepsSessions ==
    /\ ~isCreatingSession
    /\ \A d \in sessionData :
          d.voucher \in vouchers /\ d.voucher.grantee = d.keypair
    /\ \A u \in Users :
          \A d \in localStorage[u] :
              /\ d.voucher \in vouchers
              /\ d.voucher.grantee = d.privateKeyHex
              /\ d.voucher.granter = u
    /\ \A k \in Keys :
          LET t == createSession(State, address, k, FALSE) IN
          address # NoAddress =>
              /\ t.res = "null"
              /\ t.error # NoError
              /\ ~t.isCreatingSession
              /\ t.sessionData = sessionData
              /\ t.isSessionValid = isSessionValid
              /\ t.localStorage = localStorage
              /\ t.vouchers = vouchers
    /\ \A k \in generateSecp256k1Keypair(State) :
          LET t == createSession(State, address, k, TRUE) IN
          address # NoAddress =>
              /\ t.res = "ok"
              /\ ~t.isCreatingSession
              /\ \E v \in t.vouchers \ vouchers :
                    /\ v.grantee = k /\ v.granter = address
                    /\ t.sessionData = {[keypair |-> k, voucher |-> v,
                                         expiresAt |-> v.expiresAt]}
                    /\ t.localStorage[address] =
                          {[privateKeyHex |-> k, voucher |-> v,
                            expiresAt |-> v.expiresAt]}

C36_Witness ==
    /\ address # NoAddress
    /\ error = Rejected
    /\ \E d \in sessionData : d.voucher.granter = address
    /\ localStorage[address] # {}
    /\ generateSecp256k1Keypair(State) # {}

\* C38: a finalize that goes through with the for value equal to the
\* against value (0 and 0 included) leaves the proposal Defeated; it leaves
\* the proposal Succeeded exactly when the for value is strictly greater.
C38_TieIsDefeated ==
    \A u \in Users, p \in ProposalIds :
        \A f \in 0..3 \cup TallyArguments(proposals[p].forVotes),
           a \in 0..3 \cup TallyArguments(proposals[p].againstVotes) :
            LET t == finalizeProposal(State, u, p, f, a) IN
            t.res = "ok" =>
                /\ f = a => t.proposals[p].state = "Defeated"
                /\ t.proposals[p].state = "Succeeded" <=> f > a
                /\ t.proposals[p].state \in {"Succeeded", "Defeated"}

C38_Witness ==
    \E p \in ProposalIds :
        /\ \A u \in Users : ~HasVoted(p, u)
        /\ Plain(State, proposals[p].forVotes) = 0
        /\ Plain(State, proposals[p].againstVotes) = 0
        /\ finalizeProposal(State, "u1", p, 0, 0).res = "ok"
        /\ finalizeProposal(State, "u1", p, 0, 0).proposals[p].state = "Defeated"

\* The handle sequences a batch is built from: two or three handles, each
\* a tally handle of some proposal or the zero handle.
TallyHandles ==
    {ZERO_HANDLE} \cup
    UNION {{proposals[p].forVotes, proposals[p].againstVotes,
            proposals[p].abstainVotes} : p \in ProposalIds}

BatchInputs ==
    (TallyHandles \X TallyHandles) \cup
    (TallyHandles \X TallyHandles \X TallyHandles)

C37_BatchResultsAttributed ==
    /\ \A handles \in BatchInputs :
          /\ \A i \in DOMAIN handles :
                extractValues(State, handles, VoteDecimals)[i] =
                    IF handles[i] = ZERO_HANDLE THEN Zero
                    ELSE formatUnits(Plain(State, handles[i]), VoteDecimals)
          /\ DOMAIN decryptedMap(State, handles) =
                {handles[i] : i \in DOMAIN handles} \ {ZERO_HANDLE}
          /\ \A h \in DOMAIN decryptedMap(State, handles) :
                decryptedMap(State, handles)[h] = Plain(State, h)
    /\ \A p \in ProposalIds :
          \A r \in voteResults[p] :
              /\ r.forVotes =
                    formatUnits(Plain(State, proposals[p].forVotes), VoteDecimals)
              /\ r.againstVotes =
                    formatUnits(Plain(State, proposals[p].againstVotes), VoteDecimals)
              /\ r.abstainVotes =
                    formatUnits(Plain(State, proposals[p].abstainVotes), VoteDecimals)

C37_Witness ==
    \E p \in ProposalIds :
        /\ Plain(State, proposals[p].againstVotes) = 5
        /\ Plain(State, proposals[p].abstainVotes) = 3
        /\ \E r \in voteResults[p] :
              /\ r.forVotes = Zero
              /\ r.againstVotes = formatUnits(5, VoteDecimals)
              /\ r.abstainVotes = formatUnits(3, VoteDecimals)

====
